---- MODULE Spec2Model ----
(***************************************************************************)
(* Model of src/main.py of automation-agent: the similarity task task_a9   *)
(* (with get_embedding and cosine_similarity) and the LLM dispatcher       *)
(* query_gpt over the module-level tool list `tools`, and the handlers     *)
(* task_a3, task_a4, task_a5, task_a7 and task_a8.                         *)
(*                                                                         *)
(* Coroutines are cut at their await points: one action runs from one      *)
(* await (or the call) to the next await (or the return / raise).          *)
(***************************************************************************)
EXTENDS Integers, Sequences, FiniteSets, TLC

\* ------------------------------------------------------------------ bounds
\* Most lines the comments file holds.
MaxLines == 3
\* Number of dispatch calls in flight.
NumCalls == 2

\* ------------------------------------------------------------- exceptions
\* A raised exception: its Python type and the fixed head of its message.
\* cause is the message head of the exception it was raised for ("" if none).
NoError == [type |-> "None", msg |-> "", cause |-> ""]

Exc(type, msg) == [type |-> type, msg |-> msg, cause |-> ""]

ExcFrom(type, msg, e) == [type |-> type, msg |-> msg, cause |-> e.msg]

\* ------------------------------------------------------------ comments file
\* The lines /data/comments.txt may hold: blank, whitespace only, and text
\* with or without surrounding whitespace.
LineValues == {"", " ", "a", " b"}

\* str.strip() on the lines above.
Strip(line) ==
    CASE line = ""   -> ""
      [] line = " "  -> ""
      [] line = " b" -> "b"
      [] OTHER       -> line

\* [line.strip() for line in f if line.strip()]
RECURSIVE ReadComments(_)
ReadComments(ls) ==
    IF ls = <<>> THEN <<>>
    ELSE IF Strip(Head(ls)) # ""
         THEN <<Strip(Head(ls))>> \o ReadComments(Tail(ls))
         ELSE ReadComments(Tail(ls))

RECURSIVE SeqsUpTo(_, _)
SeqsUpTo(S, n) ==
    IF n = 0 THEN {<<>>}
    ELSE LET shorter == SeqsUpTo(S, n - 1)
         IN  shorter \cup {Append(s, x) : s \in {t \in shorter : Len(t) = n - 1}, x \in S}

\* ------------------------------------------------------------- embeddings
\* Embedding vectors the service may return.  All have the same length and an
\* integer Euclidean norm, so that np.linalg.norm is exact and the float
\* quotient dot / (n1 * n2) is the correctly rounded rational: comparing two
\* scores as floats then agrees with comparing the rationals.
EmbeddingValues == {<<1, 0>>, <<-1, 0>>, <<0, 1>>, <<3, 4>>, <<0, 0>>}

\* np.dot
Dot(v1, v2) == v1[1] * v2[1] + v1[2] * v2[2]

\* np.linalg.norm on a vector whose squared length is a perfect square.
Norm(v) == CHOOSE r \in 0..(Dot(v, v)) : r * r = Dot(v, v)

\* Variant: the zero-norm test is left out and the division always performed
\* (a zero denominator stands for the quotient 0.0 / 0.0).
cosine_similarityUnguarded(vec1, vec2) ==
    <<Dot(vec1, vec2), Norm(vec1) * Norm(vec2)>>

\* A score is the rational <<numerator, denominator>>, denominator > 0.
cosine_similarity(vec1, vec2) ==
    LET dot_product == Dot(vec1, vec2)
        norm_vec1   == Norm(vec1)
        norm_vec2   == Norm(vec2)
    IN  IF norm_vec1 = 0 \/ norm_vec2 = 0
        THEN <<0, 1>>
        ELSE <<dot_product, norm_vec1 * norm_vec2>>

\* a > b on scores.
ScoreGt(a, b) == a[1] * b[2] > b[1] * a[2]

\* httpx.AsyncClient(timeout=30), seconds.
EmbeddingTimeout == 30

\* httpx.AsyncClient(timeout=60.0), seconds.
QueryGptTimeout == 60

\* Variant: the client is built with timeout=None, so a POST that gets no
\* answer is awaited for ever.
SilentOutcomesNoTimeout(timeout) == {}

\* How an awaited POST can end when the upstream sends nothing: httpx raises
\* TimeoutException once `timeout` seconds have passed.
SilentOutcomes(timeout) == IF timeout > 0 THEN {"timeout"} ELSE {}

\* Variant: a request that failed is sent once more.
RequestsOnFailureRetried(requests) == Append(requests, requests[Len(requests)])

\* The requests a call has sent once its POST has failed: every except clause
\* raises, nothing is sent again.
RequestsOnFailure(requests) == requests

\* Answers of the embedding service to one POST.
EmbResponses ==
    [kind : {"ok"}, vec : EmbeddingValues]
    \cup [kind : {"status_error", "timeout", "request_error", "not_json",
                  "no_data", "data_not_list", "data_empty", "no_embedding"},
          vec : {<<0, 0>>}]

\* Variant: the vectors are kept in a module-level list that a later call
\* goes on from.
EmbeddingsAtCallKept(previous) == previous

\* embeddings: List[np.ndarray] = [], a local bound anew by every call;
\* previous is what the call before held.
EmbeddingsAtCall(previous) == <<>>

\* Variant: the vector is stored at the front of the list.
PrependEmbedding(embs, embedding) == <<embedding>> \o embs

\* embeddings.append(embedding)
AppendEmbedding(embs, embedding) == Append(embs, embedding)

\* Variant: response.raise_for_status() is left out, so an error status is
\* read as an embedding.
GetEmbeddingErrorNoStatusCheck(resp) ==
    CASE resp.kind \in {"ok", "status_error"} -> NoError
      [] resp.kind = "timeout"       -> Exc("RuntimeError", "API Timeout")
      [] resp.kind = "request_error" -> Exc("RuntimeError", "API Request Failed")
      [] OTHER                       -> Exc("RuntimeError", "An unexpected error occurred")

\* What get_embedding raises for an answer (NoError: it returns resp.vec).
GetEmbeddingError(resp) ==
    CASE resp.kind = "ok"            -> NoError
      [] resp.kind = "status_error"  -> Exc("RuntimeError", "API Error")
      [] resp.kind = "timeout"       -> Exc("RuntimeError", "API Timeout")
      [] resp.kind = "request_error" -> Exc("RuntimeError", "API Request Failed")
      [] OTHER                       -> Exc("RuntimeError", "An unexpected error occurred")

\* ---------------------------------------------------------- pair selection
\* max_sim = -1.0
InitialMaxSim == <<-1, 1>>

\* pair_indices = (None, None): None is modelled as the index -1.
NoIndex == -1

\* Variant: the best is replaced on a tie as well (>= for >).
BetterOrEqual(sim, max_sim) == ~ScoreGt(max_sim, sim)

\* if sim > max_sim
Better(sim, max_sim) == ScoreGt(sim, max_sim)

\* The body of the inner loop for the pair (i, j), 0-based as in the source.
ScanStep(embs, st, i, j) ==
    LET sim == cosine_similarity(embs[i + 1], embs[j + 1])
    IN  IF Better(sim, st.max_sim)
        THEN [max_sim |-> sim, pair_indices |-> <<i, j>>]
        ELSE st

\* for i in range(n): for j in range(i + 1, n): ...
RECURSIVE ScanLoop(_, _, _, _)
ScanLoop(embs, st, i, j) ==
    IF i >= Len(embs) THEN st
    ELSE IF j >= Len(embs) THEN ScanLoop(embs, st, i + 1, i + 2)
    ELSE ScanLoop(embs, ScanStep(embs, st, i, j), i, j + 1)

FindPair(embs) ==
    ScanLoop(embs, [max_sim |-> InitialMaxSim, pair_indices |-> <<NoIndex, NoIndex>>], 0, 1)

\* if pair_indices[0] is None or pair_indices[1] is None
NoPairFound(pair) == pair[1] = NoIndex \/ pair[2] = NoIndex

\* Variant: the length test is off by one (< 1 for < 2).
TooFewOffByOne(cs) == Len(cs) < 1

\* if len(comments) < 2
TooFew(cs) == Len(cs) < 2

\* --------------------------------------------------------------- the files
\* A file: whether it exists and its lines.
AbsentFile == [exists |-> FALSE, lines |-> <<>>]

FileOf(ls) == [exists |-> TRUE, lines |-> ls]

\* What the output file may hold before the task runs.
OutputBefore == {AbsentFile, FileOf(<<"old">>)}

\* f.write(similar_pair[0] + "\n" + similar_pair[1])
SimilarPairFile(cs, pair) == FileOf(<<cs[pair[1] + 1], cs[pair[2] + 1]>>)

\* What open(output_file, "w") followed by f.write leaves when it raises:
\* open raised (file untouched), or the file was truncated by open and the
\* write or the flush on close raised with nothing or a part on disk.
FailedWriteLeaves(before, cs, pair) ==
    {before, FileOf(<<>>), FileOf(<<cs[pair[1] + 1]>>)}

\* ------------------------------------------------------------------- state
VARIABLES
    AIPROXY_TOKEN,   \* TRUE iff the environment variable is set (non-empty)
    upstream_silent, \* TRUE iff the upstream services answer no request at all
    input_exists,    \* os.path.isfile(input_file)
    input_lines,     \* the lines of /data/comments.txt
    output_file,     \* /data/comments-similar.txt
    output_before,   \* output_file as it was when task_a9 was called
    a9_pc,           \* "idle", "awaiting" (an embedding POST), "done", "failed",
                     \* "cancelled"
    comments,        \* task_a9's local list
    embeddings,      \* task_a9's local list
    emb_requests,    \* the texts POSTed to the embedding service, in order
    emb_answers,     \* the answers of the embedding service, in order
    max_sim,         \* task_a9's local
    pair_indices,    \* task_a9's local
    a9_err,          \* what task_a9 raised
    cancelled_fetched \* <<k>>: the call before this one was cancelled holding k
                     \* vectors; <<>>: no call was cancelled

a9_vars == <<input_exists, input_lines, output_file, output_before, a9_pc,
             comments, embeddings, emb_requests, emb_answers, max_sim, pair_indices,
             a9_err, cancelled_fetched>>

VARIABLES
    tools,        \* the module-level list
    q_pc,         \* per call: "idle", "awaiting", "returned", "failed"
    q_input,      \* per call: user_input
    q_requests,   \* per call: the payloads POSTed
    q_resp,       \* per call: the answer received
    q_result,     \* per call: the value returned
    q_err,        \* per call: the exception raised
    q_invoked     \* per call: the handler invocations made

q_vars == <<tools, q_pc, q_input, q_requests, q_resp, q_result, q_err, q_invoked>>

VARIABLES
    h_task,           \* the file or LLM task handler called ("none": none yet)
    h_pc,             \* "idle", "awaiting" (task_a7 / task_a8's POST), "done", "failed"
    h_source,         \* what the handler found at its source path
    h_target,         \* the handler's target file
    h_target_before,  \* h_target as it was when the handler was called
    h_content,        \* the complete content the handler set out to write
    h_requests,       \* the requests POSTed by task_a7 / task_a8
    h_err             \* what the handler raised

h_vars == <<h_task, h_pc, h_source, h_target, h_target_before, h_content, h_requests, h_err>>

vars == <<AIPROXY_TOKEN, upstream_silent, a9_vars, q_vars, h_vars>>

A9Init ==
    /\ input_exists \in BOOLEAN
    /\ input_lines \in IF input_exists THEN SeqsUpTo(LineValues, MaxLines) ELSE {<<>>}
    /\ output_file \in OutputBefore
    /\ output_before = output_file
    /\ a9_pc = "idle"
    /\ comments = <<>>
    /\ embeddings = <<>>
    /\ emb_requests = <<>>
    /\ emb_answers = <<>>
    /\ max_sim = InitialMaxSim
    /\ pair_indices = <<NoIndex, NoIndex>>
    /\ a9_err = NoError
    /\ cancelled_fetched = <<>>

\* task_a9 raises e: nothing else changes.
A9Raise(e) ==
    /\ a9_pc' = "failed"
    /\ a9_err' = e

\* ------------------------------------------------ task_a9, up to first await
\* if not os.path.isfile(input_file): raise FileNotFoundError
A9InputMissing ==
    /\ a9_pc = "idle"
    /\ ~input_exists
    /\ A9Raise(Exc("FileNotFoundError", "Comments file not found"))
    /\ UNCHANGED <<AIPROXY_TOKEN, upstream_silent, q_vars, h_vars, cancelled_fetched, input_exists, input_lines, output_file, output_before,
                   comments, embeddings, emb_requests, emb_answers, max_sim, pair_indices>>

\* open / read raises (permissions, decoding)
A9ReadFails ==
    /\ a9_pc = "idle"
    /\ input_exists
    /\ A9Raise(Exc("RuntimeError", "Failed to read comments file."))
    /\ UNCHANGED <<AIPROXY_TOKEN, upstream_silent, q_vars, h_vars, cancelled_fetched, input_exists, input_lines, output_file, output_before,
                   comments, embeddings, emb_requests, emb_answers, max_sim, pair_indices>>

\* if len(comments) < 2: raise RuntimeError
A9NotEnough ==
    /\ a9_pc = "idle"
    /\ input_exists
    /\ comments' = ReadComments(input_lines)
    /\ TooFew(comments')
    /\ A9Raise(Exc("RuntimeError", "Not enough comments to compute similarity."))
    /\ UNCHANGED <<AIPROXY_TOKEN, upstream_silent, q_vars, h_vars, cancelled_fetched, input_exists, input_lines, output_file, output_before,
                   embeddings, emb_requests, emb_answers, max_sim, pair_indices>>

\* get_embedding(comments[0]) raises ValueError before any request: no token
A9NoToken ==
    /\ a9_pc = "idle"
    /\ input_exists
    /\ comments' = ReadComments(input_lines)
    /\ ~TooFew(comments')
    /\ ~AIPROXY_TOKEN
    /\ A9Raise(ExcFrom("RuntimeError", "Error generating embeddings",
                       Exc("ValueError", "AIPROXY_TOKEN environment variable is not set.")))
    /\ UNCHANGED <<AIPROXY_TOKEN, upstream_silent, q_vars, h_vars, cancelled_fetched, input_exists, input_lines, output_file, output_before,
                   embeddings, emb_requests, emb_answers, max_sim, pair_indices>>

\* The first get_embedding call POSTs comments[0] and awaits the answer.
A9FirstRequest ==
    /\ a9_pc = "idle"
    /\ input_exists
    /\ comments' = ReadComments(input_lines)
    /\ ~TooFew(comments')
    /\ AIPROXY_TOKEN
    /\ emb_requests' = <<comments'[1]>>
    /\ a9_pc' = "awaiting"
    /\ UNCHANGED <<AIPROXY_TOKEN, upstream_silent, q_vars, h_vars, cancelled_fetched, input_exists, input_lines, output_file, output_before,
                   embeddings, emb_answers, max_sim, pair_indices, a9_err>>

\* ------------------------------------------- task_a9, an embedding answer
\* get_embedding raises: the loop is left, task_a9 raises RuntimeError.
A9EmbeddingFails(resp) ==
    /\ a9_pc = "awaiting"
    /\ GetEmbeddingError(resp) # NoError
    /\ emb_answers' = Append(emb_answers, resp)
    /\ emb_requests' = RequestsOnFailure(emb_requests)
    /\ A9Raise(ExcFrom("RuntimeError", "Error generating embeddings", GetEmbeddingError(resp)))
    /\ UNCHANGED <<AIPROXY_TOKEN, upstream_silent, q_vars, h_vars, cancelled_fetched, input_exists, input_lines, output_file, output_before,
                   comments, embeddings, max_sim, pair_indices>>

\* embeddings.append(embedding); the next get_embedding call POSTs.
A9EmbeddingNext(resp) ==
    /\ a9_pc = "awaiting"
    /\ GetEmbeddingError(resp) = NoError
    /\ emb_answers' = Append(emb_answers, resp)
    /\ embeddings' = AppendEmbedding(embeddings, resp.vec)
    /\ Len(embeddings') < Len(comments)
    /\ emb_requests' = Append(emb_requests, comments[Len(embeddings') + 1])
    /\ UNCHANGED <<AIPROXY_TOKEN, upstream_silent, q_vars, h_vars, cancelled_fetched, input_exists, input_lines, output_file, output_before,
                   a9_pc, comments, max_sim, pair_indices, a9_err>>

\* The last embedding arrived, the scan ran and selected no pair.
A9NoPair(resp) ==
    /\ a9_pc = "awaiting"
    /\ GetEmbeddingError(resp) = NoError
    /\ emb_answers' = Append(emb_answers, resp)
    /\ embeddings' = AppendEmbedding(embeddings, resp.vec)
    /\ Len(embeddings') = Len(comments)
    /\ max_sim' = FindPair(embeddings').max_sim
    /\ pair_indices' = FindPair(embeddings').pair_indices
    /\ NoPairFound(pair_indices')
    /\ A9Raise(Exc("RuntimeError", "Failed to find a similar pair of comments."))
    /\ UNCHANGED <<AIPROXY_TOKEN, upstream_silent, q_vars, h_vars, cancelled_fetched, input_exists, input_lines, output_file, output_before,
                   comments, emb_requests>>

\* The last embedding arrived, the scan selected a pair, the write succeeded.
A9Written(resp) ==
    /\ a9_pc = "awaiting"
    /\ GetEmbeddingError(resp) = NoError
    /\ emb_answers' = Append(emb_answers, resp)
    /\ embeddings' = AppendEmbedding(embeddings, resp.vec)
    /\ Len(embeddings') = Len(comments)
    /\ max_sim' = FindPair(embeddings').max_sim
    /\ pair_indices' = FindPair(embeddings').pair_indices
    /\ ~NoPairFound(pair_indices')
    /\ output_file' = SimilarPairFile(comments, pair_indices')
    /\ a9_pc' = "done"
    /\ UNCHANGED <<AIPROXY_TOKEN, upstream_silent, q_vars, h_vars, cancelled_fetched, input_exists, input_lines, output_before,
                   comments, emb_requests, a9_err>>

\* The last embedding arrived, the scan selected a pair, the write raised.
A9WriteFails(resp) ==
    /\ a9_pc = "awaiting"
    /\ GetEmbeddingError(resp) = NoError
    /\ emb_answers' = Append(emb_answers, resp)
    /\ embeddings' = AppendEmbedding(embeddings, resp.vec)
    /\ Len(embeddings') = Len(comments)
    /\ max_sim' = FindPair(embeddings').max_sim
    /\ pair_indices' = FindPair(embeddings').pair_indices
    /\ ~NoPairFound(pair_indices')
    /\ output_file' \in FailedWriteLeaves(output_file, comments, pair_indices')
    /\ A9Raise(Exc("RuntimeError", "Failed to write similar comments output."))
    /\ UNCHANGED <<AIPROXY_TOKEN, upstream_silent, q_vars, h_vars, cancelled_fetched, input_exists, input_lines, output_before,
                   comments, emb_requests>>

\* ------------------------------------------------- task_a9, cancellation
\* The caller cancels the task while it awaits an embedding POST:
\* CancelledError is raised at the await.  It is a BaseException, so neither
\* get_embedding's `except Exception` nor task_a9's catches it; nothing after
\* the loop runs.  The frame's locals are left as the cancelled call held them.
A9Cancel ==
    /\ a9_pc = "awaiting"
    /\ a9_pc' = "cancelled"
    /\ a9_err' = Exc("CancelledError", "")
    /\ UNCHANGED <<AIPROXY_TOKEN, upstream_silent, q_vars, h_vars, cancelled_fetched, input_exists, input_lines,
                   output_file, output_before, comments, embeddings, emb_requests,
                   emb_answers, max_sim, pair_indices>>

\* task_a9 is called again after a cancelled call: a new frame, new locals.
A9CallAgain ==
    /\ a9_pc = "cancelled"
    /\ a9_pc' = "idle"
    /\ cancelled_fetched' = <<Len(embeddings)>>
    /\ comments' = <<>>
    /\ embeddings' = EmbeddingsAtCall(embeddings)
    /\ emb_requests' = <<>>
    /\ emb_answers' = <<>>
    /\ max_sim' = InitialMaxSim
    /\ pair_indices' = <<NoIndex, NoIndex>>
    /\ a9_err' = NoError
    /\ output_before' = output_file
    /\ UNCHANGED <<AIPROXY_TOKEN, upstream_silent, q_vars, h_vars, input_exists, input_lines, output_file>>

\* What a POST to the embedding service can end in.
EmbOutcomes ==
    IF upstream_silent
    THEN {r \in EmbResponses : r.kind \in SilentOutcomes(EmbeddingTimeout)}
    ELSE EmbResponses

NextSimilarity ==
    \/ A9InputMissing
    \/ A9ReadFails
    \/ A9NotEnough
    \/ A9NoToken
    \/ A9FirstRequest
    \/ \E resp \in EmbOutcomes :
          \/ A9EmbeddingFails(resp)
          \/ A9EmbeddingNext(resp)
          \/ A9NoPair(resp)
          \/ A9Written(resp)
          \/ A9WriteFails(resp)

\* ---------------------------------------------------------------- registry
\* One entry of the module-level list `tools`: the "function" object's name,
\* the keys of parameters.properties, parameters.required (absent = empty),
\* parameters.additionalProperties and strict.
Tool(name, properties, required) ==
    [name |-> name, properties |-> properties, required |-> required,
     additionalProperties |-> FALSE, strict |-> TRUE]

ToolsInit ==
    << Tool("task_a1", {"user_email"}, {"user_email"}),
       Tool("task_a2", {}, {}),
       Tool("task_a3", {}, {}),
       Tool("task_a4", {}, {}),
       Tool("task_a5", {}, {}),
       Tool("task_a6", {}, {}),
       Tool("task_a7", {}, {}),
       Tool("task_a8", {}, {}),
       Tool("task_a9", {}, {}),
       Tool("task_a10", {}, {}) >>

\* ------------------------------------------------- chat-completion answers
\* Instructions a caller passes as user_input.
Instructions == {"count Wednesdays", "hello"}

\* A tool call of a message: the function name and the keys of its arguments.
ToolCallNames == {"task_a1", "task_a3", "task_zz"}

ToolCallArguments == SUBSET {"user_email"}

ToolCalls == [name : ToolCallNames, arguments : ToolCallArguments]

\* A message: tool_calls (<<>>: the key is absent or null) and content
\* ("None": null).
\* The tool_calls lists of a message: none, one call, or two calls.
ToolCallLists ==
    {<<>>}
    \cup {<<t>> : t \in ToolCalls}
    \cup {<<[name |-> "task_a3", arguments |-> {}], t>> :
             t \in [name : {"task_a1", "task_a3"}, arguments : {{"user_email"}}]}

Messages == [tool_calls : ToolCallLists, content : {"None", "text"}]

NoMessage == [tool_calls |-> <<>>, content |-> "None"]

\* A response body: whether it parses as JSON, what its "choices" key is
\* ("absent", "not_list", "list"), and the list; a choice either has a
\* "message" key or not.
Body(json, choices_kind, choices) ==
    [json |-> json, choices_kind |-> choices_kind, choices |-> choices]

NotJsonBody == Body(FALSE, "absent", <<>>)

EmptyObjectBody == Body(TRUE, "absent", <<>>)

ChoicesNotListBody == Body(TRUE, "not_list", <<>>)

ChoicesEmptyBody == Body(TRUE, "list", <<>>)

ChoiceWithoutMessageBody ==
    Body(TRUE, "list", <<[has_message |-> FALSE, message |-> NoMessage]>>)

MessageBody(m) == Body(TRUE, "list", <<[has_message |-> TRUE, message |-> m]>>)

MalformedBodies ==
    {NotJsonBody, EmptyObjectBody, ChoicesNotListBody, ChoicesEmptyBody,
     ChoiceWithoutMessageBody}

Bodies == MalformedBodies \cup {MessageBody(m) : m \in Messages}

\* What the POST to the completions endpoint ends with.
ChatResponse(kind, status, body) == [kind |-> kind, status |-> status, body |-> body]

NoResponse == ChatResponse("none", 0, EmptyObjectBody)

ChatResponses ==
    {ChatResponse("timeout", 0, EmptyObjectBody),
     ChatResponse("connect_error", 0, EmptyObjectBody),
     ChatResponse("http", 500, EmptyObjectBody),
     ChatResponse("http", 500, MessageBody([tool_calls |-> <<>>, content |-> "text"]))}
    \cup {ChatResponse("http", 200, b) : b \in Bodies}

\* What a POST to the chat-completion service can end in.
ChatOutcomes ==
    IF upstream_silent
    THEN {r \in ChatResponses : r.kind \in SilentOutcomes(QueryGptTimeout)}
    ELSE ChatResponses

\* ---------------------------------------------------------------- query_gpt
\* Whether a tool call's arguments fit the schema of the tool it names:
\* no key outside properties, every required key present.
ArgumentsFit(tool, call) ==
    /\ call.arguments \subseteq tool.properties
    /\ tool.required \subseteq call.arguments

\* Variant: the extracted arguments are validated against the named tool's
\* schema and a mismatch raises.
RaisedInTryValidating(resp) ==
    CASE resp.kind = "timeout"                -> "TimeoutException"
      [] resp.kind = "connect_error"          -> "ConnectError"
      [] resp.status >= 400                   -> "HTTPStatusError"
      [] ~resp.body.json                      -> "JSONDecodeError"
      [] resp.body.choices_kind # "list"      -> "ValueError"
      [] Len(resp.body.choices) = 0           -> "ValueError"
      [] ~resp.body.choices[1].has_message    -> "KeyError"
      [] \E k \in DOMAIN resp.body.choices[1].message.tool_calls :
            \E t \in DOMAIN ToolsInit :
               /\ ToolsInit[t].name = resp.body.choices[1].message.tool_calls[k].name
               /\ ~ArgumentsFit(ToolsInit[t], resp.body.choices[1].message.tool_calls[k])
                                              -> "ValueError"
      [] OTHER                                -> "None"

\* Variant: a first choice without "message" is read as an empty message
\* (choices[0].get("message", {}) for choices[0]["message"]).
RaisedInTryLenient(resp) ==
    CASE resp.kind = "timeout"                -> "TimeoutException"
      [] resp.kind = "connect_error"          -> "ConnectError"
      [] resp.status >= 400                   -> "HTTPStatusError"
      [] ~resp.body.json                      -> "JSONDecodeError"
      [] resp.body.choices_kind # "list"      -> "ValueError"
      [] Len(resp.body.choices) = 0           -> "ValueError"
      [] OTHER                                -> "None"

\* The exception class raised inside the try block for an answer ("None":
\* the block reaches `return message`).
RaisedInTry(resp) ==
    CASE resp.kind = "timeout"                -> "TimeoutException"
      [] resp.kind = "connect_error"          -> "ConnectError"
      [] resp.status >= 400                   -> "HTTPStatusError"
      [] ~resp.body.json                      -> "JSONDecodeError"
      [] resp.body.choices_kind # "list"      -> "ValueError"
      [] Len(resp.body.choices) = 0           -> "ValueError"
      [] ~resp.body.choices[1].has_message    -> "KeyError"
      [] OTHER                                -> "None"

\* The classes an exception class is an instance of (httpx, json, builtins).
Superclasses(cls) ==
    CASE cls = "TimeoutException" -> {"TimeoutException", "RequestError", "Exception"}
      [] cls = "ConnectError"     -> {"ConnectError", "RequestError", "Exception"}
      [] cls = "HTTPStatusError"  -> {"HTTPStatusError", "Exception"}
      [] cls = "JSONDecodeError"  -> {"JSONDecodeError", "ValueError", "Exception"}
      [] OTHER                    -> {cls, "Exception"}

\* Variant: the catch-all clause comes first.
ExceptClausesCatchAllFirst ==
    << <<"Exception", "An unexpected error occurred">>,
       <<"HTTPStatusError", "LLM API Error">>,
       <<"TimeoutException", "LLM API Timeout">>,
       <<"RequestError", "LLM API Request Failed">>,
       <<"JSONDecodeError", "LLM API Response Decode Error">> >>

\* query_gpt's except clauses, in order: the class caught, the message raised.
ExceptClauses ==
    << <<"HTTPStatusError", "LLM API Error">>,
       <<"TimeoutException", "LLM API Timeout">>,
       <<"RequestError", "LLM API Request Failed">>,
       <<"JSONDecodeError", "LLM API Response Decode Error">>,
       <<"Exception", "An unexpected error occurred">> >>

\* The first clause that catches cls.
RECURSIVE FirstClause(_, _)
FirstClause(clauses, cls) ==
    IF clauses = <<>> THEN <<cls, "uncaught">>
    ELSE IF Head(clauses)[1] \in Superclasses(cls) THEN Head(clauses)
    ELSE FirstClause(Tail(clauses), cls)

\* What query_gpt raises when the try block raised cls.
QueryGptError(cls) ==
    ExcFrom("RuntimeError", FirstClause(ExceptClauses, cls)[2], Exc(cls, cls))

\* Variant: a message with tool calls is returned without its content.
ReturnedMessageOneVariant(resp) ==
    IF resp.body.choices[1].message.tool_calls # <<>>
    THEN [resp.body.choices[1].message EXCEPT !.content = "None"]
    ELSE resp.body.choices[1].message

\* Variant: only the tool calls of the message are returned.
ReturnedMessageToolCallsOnly(resp) ==
    [resp.body.choices[1].message EXCEPT !.content = "None"]

\* message = response_data["choices"][0]["message"]; return message
ReturnedMessage(resp) == resp.body.choices[1].message

\* Variant: the handler of each tool call is called with its arguments.
HandlersInvokedPerToolCall(message) == message.tool_calls

\* The task handlers query_gpt calls for a message before it returns: none.
HandlersInvoked(message) == <<>>

Calls == 1..NumCalls

QInit ==
    /\ tools = ToolsInit
    /\ q_pc = [c \in Calls |-> "idle"]
    /\ q_input = [c \in Calls |-> ""]
    /\ q_requests = [c \in Calls |-> <<>>]
    /\ q_resp = [c \in Calls |-> NoResponse]
    /\ q_result = [c \in Calls |-> NoMessage]
    /\ q_err = [c \in Calls |-> NoError]
    /\ q_invoked = [c \in Calls |-> <<>>]

\* Variant: the messages are kept in one list that every call appends to.
PayloadSharedMessages(user_input) ==
    LET sent == {c \in Calls : q_requests[c] # <<>>}
        earlier == IF sent = {} THEN <<>>
                   ELSE q_requests[CHOOSE c \in sent : TRUE][1].messages
    IN  [model |-> "gpt-4o-mini",
         messages |-> earlier \o <<[role |-> "user", content |-> user_input]>>,
         tools |-> tools, tool_choice |-> "auto"]

\* payload = {"model": ..., "messages": [...], "tools": tools, "tool_choice": "auto"}
Payload(user_input) ==
    [model |-> "gpt-4o-mini", messages |-> <<[role |-> "user", content |-> user_input]>>,
     tools |-> tools, tool_choice |-> "auto"]

\* if not api_key: raise ValueError
QueryGptNoToken(c, user_input) ==
    /\ q_pc[c] = "idle"
    /\ ~AIPROXY_TOKEN
    /\ q_input' = [q_input EXCEPT ![c] = user_input]
    /\ q_pc' = [q_pc EXCEPT ![c] = "failed"]
    /\ q_err' = [q_err EXCEPT ![c] =
                    Exc("ValueError", "Environment variable AIPROXY_TOKEN not set.")]
    /\ UNCHANGED <<AIPROXY_TOKEN, upstream_silent, a9_vars, h_vars, tools, q_requests, q_resp, q_result, q_invoked>>

\* await client.post(...)
QueryGptSend(c, user_input) ==
    /\ q_pc[c] = "idle"
    /\ AIPROXY_TOKEN
    /\ q_input' = [q_input EXCEPT ![c] = user_input]
    /\ q_requests' = [q_requests EXCEPT ![c] = Append(@, Payload(user_input))]
    /\ q_pc' = [q_pc EXCEPT ![c] = "awaiting"]
    /\ UNCHANGED <<AIPROXY_TOKEN, upstream_silent, a9_vars, h_vars, tools, q_resp, q_result, q_err, q_invoked>>

\* The answer makes the try block raise.
QueryGptFails(c, resp) ==
    /\ q_pc[c] = "awaiting"
    /\ RaisedInTry(resp) # "None"
    /\ q_resp' = [q_resp EXCEPT ![c] = resp]
    /\ q_pc' = [q_pc EXCEPT ![c] = "failed"]
    /\ q_err' = [q_err EXCEPT ![c] = QueryGptError(RaisedInTry(resp))]
    /\ q_requests' = [q_requests EXCEPT ![c] = RequestsOnFailure(@)]
    /\ UNCHANGED <<AIPROXY_TOKEN, upstream_silent, a9_vars, h_vars, tools, q_input, q_result, q_invoked>>

\* The answer is parsed and its first choice's message returned.
QueryGptReturns(c, resp) ==
    /\ q_pc[c] = "awaiting"
    /\ RaisedInTry(resp) = "None"
    /\ q_resp' = [q_resp EXCEPT ![c] = resp]
    /\ q_pc' = [q_pc EXCEPT ![c] = "returned"]
    /\ q_result' = [q_result EXCEPT ![c] = ReturnedMessage(resp)]
    /\ q_invoked' = [q_invoked EXCEPT ![c] = @ \o HandlersInvoked(ReturnedMessage(resp))]
    /\ UNCHANGED <<AIPROXY_TOKEN, upstream_silent, a9_vars, h_vars, tools, q_input, q_requests, q_err>>

\* One step of call c.
QueryGptStep(c) ==
    \/ \E user_input \in Instructions :
          \/ QueryGptNoToken(c, user_input)
          \/ QueryGptSend(c, user_input)
    \/ \E resp \in ChatOutcomes :
          \/ QueryGptFails(c, resp)
          \/ QueryGptReturns(c, resp)

NextDispatch == \E c \in Calls : QueryGptStep(c)

\* ------------------------------------------------------ the other handlers
\* What a handler raised: the class, the status_code (HTTPException only,
\* else 0) and the detail or message.
NoHandlerError == [type |-> "None", status |-> 0, msg |-> ""]

HTTPException(status_code, detail) ==
    [type |-> "HTTPException", status |-> status_code, msg |-> detail]

HandlerExc(type, msg) == [type |-> type, status |-> 0, msg |-> msg]

HInit ==
    /\ h_task = "none"
    /\ h_pc = "idle"
    /\ h_source = "none"
    /\ h_target \in OutputBefore
    /\ h_target_before = h_target
    /\ h_content = <<>>
    /\ h_requests = <<>>
    /\ h_err = NoHandlerError

\* The handler raises e, its target file untouched.
HandlerRaises(t, src, e) ==
    /\ h_task' = t
    /\ h_source' = src
    /\ h_pc' = "failed"
    /\ h_err' = e
    /\ UNCHANGED <<h_target, h_target_before, h_content, h_requests>>

\* What `with open(target, "w") as f:` followed by one f.write per entry of
\* content leaves when it raises: open raised (file untouched), or open
\* truncated the file and a write, or the flush on close, raised with only
\* the entries before it on disk.
TargetAfterFailedWrite(before, content) ==
    {before} \cup {FileOf(SubSeq(content, 1, k)) : k \in 0..(Len(content) - 1)}

\* The handler reaches its write step with content; the write succeeds.
HandlerWrites(t, src, content) ==
    /\ h_task' = t
    /\ h_source' = src
    /\ h_content' = content
    /\ h_target' = FileOf(content)
    /\ h_pc' = "done"
    /\ UNCHANGED <<h_target_before, h_requests, h_err>>

\* The handler reaches its write step with content; the write raises e.
HandlerWriteRaises(t, src, content, e) ==
    /\ h_task' = t
    /\ h_source' = src
    /\ h_content' = content
    /\ h_target' \in TargetAfterFailedWrite(h_target, content)
    /\ h_pc' = "failed"
    /\ h_err' = e
    /\ UNCHANGED <<h_target_before, h_requests>>

\* ---------------------------------------------------- task_a7 and task_a8
LlmTasks == {"task_a7", "task_a8"}

\* The input file: "missing", "unreadable" or "present".
LlmInputs == {"missing", "unreadable", "present"}

LlmUrl(t) ==
    IF t = "task_a7" THEN "https://api.example.com/v1/llm"
    ELSE "https://api.example.com/v1/llm/image"

\* f"Bearer {os.getenv('AIPROXY_TOKEN')}"
BearerHeader == IF AIPROXY_TOKEN THEN "Bearer <token>" ELSE "Bearer None"

\* Answers to the POST: a text in choices[0], or a failure.
LlmAnswers ==
    [kind : {"ok"}, text : {" a@b.c ", "1234 5678"}]
    \cup [kind : {"status_error", "timeout", "request_error", "not_json", "no_choices"},
          text : {""}]

\* str.strip()
StripText(text) == IF text = " a@b.c " THEN "a@b.c" ELSE text

\* str.replace(" ", "")
RemoveSpaces(text) == IF text = "1234 5678" THEN "12345678" ELSE text

\* result_text (task_a7), card_number (task_a8)
ResultText(t, text) ==
    IF t = "task_a7" THEN StripText(text) ELSE RemoveSpaces(StripText(text))

\* if not os.path.isfile(input_file): raise FileNotFoundError
LlmTaskInputMissing(t) ==
    /\ h_pc = "idle" /\ h_task = "none"
    /\ HandlerRaises(t, "missing", HandlerExc("FileNotFoundError", "input file not found"))
    /\ UNCHANGED <<AIPROXY_TOKEN, upstream_silent, a9_vars, q_vars>>

\* reading the input raises
LlmTaskReadFails(t) ==
    /\ h_pc = "idle" /\ h_task = "none"
    /\ HandlerRaises(t, "unreadable", HandlerExc("RuntimeError", "Failed to read input file."))
    /\ UNCHANGED <<AIPROXY_TOKEN, upstream_silent, a9_vars, q_vars>>

\* await client.post(...): the request is sent whatever the token is.
LlmTaskSend(t) ==
    /\ h_pc = "idle" /\ h_task = "none"
    /\ h_task' = t
    /\ h_source' = "present"
    /\ h_requests' = Append(h_requests, [url |-> LlmUrl(t), authorization |-> BearerHeader])
    /\ h_pc' = "awaiting"
    /\ UNCHANGED <<AIPROXY_TOKEN, upstream_silent, a9_vars, q_vars, h_target, h_target_before, h_content, h_err>>

\* The POST, raise_for_status or the parsing raises.
LlmTaskCallFails(t, ans) ==
    /\ h_pc = "awaiting" /\ h_task = t
    /\ ans.kind # "ok"
    /\ HandlerRaises(t, h_source, HandlerExc("RuntimeError", "LLM API call failed."))
    /\ UNCHANGED <<AIPROXY_TOKEN, upstream_silent, a9_vars, q_vars>>

LlmTaskWritten(t, ans) ==
    /\ h_pc = "awaiting" /\ h_task = t
    /\ ans.kind = "ok"
    /\ HandlerWrites(t, h_source, <<ResultText(t, ans.text)>>)
    /\ UNCHANGED <<AIPROXY_TOKEN, upstream_silent, a9_vars, q_vars>>

LlmTaskWriteFails(t, ans) ==
    /\ h_pc = "awaiting" /\ h_task = t
    /\ ans.kind = "ok"
    /\ HandlerWriteRaises(t, h_source, <<ResultText(t, ans.text)>>,
                          HandlerExc("RuntimeError", "Failed to write output."))
    /\ UNCHANGED <<AIPROXY_TOKEN, upstream_silent, a9_vars, q_vars>>

NextLlmTasks ==
    \E t \in LlmTasks :
        \/ LlmTaskInputMissing(t)
        \/ LlmTaskReadFails(t)
        \/ LlmTaskSend(t)
        \/ \E ans \in LlmAnswers :
              \/ LlmTaskCallFails(t, ans)
              \/ LlmTaskWritten(t, ans)
              \/ LlmTaskWriteFails(t, ans)

\* ------------------------------------------------------------ sorting
\* sorted() / list.sort() on <<key, item>> pairs by ascending key; stable.
RECURSIVE InsertByKey(_, _)
InsertByKey(p, sorted) ==
    IF sorted = <<>> THEN <<p>>
    ELSE IF p[1] < Head(sorted)[1] THEN <<p>> \o sorted
    ELSE <<Head(sorted)>> \o InsertByKey(p, Tail(sorted))

RECURSIVE SortByKey(_)
SortByKey(ps) ==
    IF ps = <<>> THEN <<>>
    ELSE InsertByKey(ps[Len(ps)], SortByKey(SubSeq(ps, 1, Len(ps) - 1)))

\* ------------------------------------------------------------------ task_a3
\* The `day` argument.
DayArguments == {"Wednesday", "thursday", "Funday"}

\* day.lower()
Lower(day) == IF day = "Wednesday" THEN "wednesday" ELSE day

WeekDays == <<"monday", "tuesday", "wednesday", "thursday", "friday", "saturday", "sunday">>

\* [...].index(day.lower()) raises ValueError
InvalidDay(day) == \A k \in DOMAIN WeekDays : WeekDays[k] # Lower(day)

\* day_index, 0-based
DayIndex(day) == (CHOOSE k \in DOMAIN WeekDays : WeekDays[k] = Lower(day)) - 1

\* The lines of the dates file.
DateLines == {"", "2024-01-03", " Jan 4, 2024", "not a date"}

\* line.strip()
StripDate(line) == IF line = " Jan 4, 2024" THEN "Jan 4, 2024" ELSE line

\* convert_date_format raises HTTPException(status_code=400)
Unparseable(date_str) == date_str = "not a date"

\* convert_date_format: the date as YYYY-MM-DD
convert_date_format(date_str) ==
    IF date_str = "Jan 4, 2024" THEN "2024-01-04" ELSE date_str

\* datetime.strptime(date_str, "%Y-%m-%d").weekday()
Weekday(iso) == IF iso = "2024-01-03" THEN 2 ELSE 3

\* str(day_count)
Digits == <<"0", "1", "2", "3", "4", "5", "6", "7", "8", "9">>

Str(n) == Digits[n + 1]

\* The loop over the lines: -1 when convert_date_format raised, else day_count.
RECURSIVE CountDays(_, _, _)
CountDays(lines, day_index, day_count) ==
    IF lines = <<>> THEN day_count
    ELSE IF StripDate(Head(lines)) = "" THEN CountDays(Tail(lines), day_index, day_count)
    ELSE IF Unparseable(StripDate(Head(lines))) THEN -1
    ELSE IF Weekday(convert_date_format(StripDate(Head(lines)))) = day_index
         THEN CountDays(Tail(lines), day_index, day_count + 1)
         ELSE CountDays(Tail(lines), day_index, day_count)

\* What `except Exception` re-raises when the block reading the dates raised.
A3ProcessingError == HTTPException(500, "Error processing dates file.")

\* The dates file: "missing", "unreadable" or "present", and its lines.
DateFiles ==
    [kind : {"missing", "unreadable"}, lines : {<<>>}]
    \cup [kind : {"present"}, lines : SeqsUpTo(DateLines, MaxLines)]

\* task_a3's source as recorded: the file and the `day` argument.
A3Call(src, day) == [kind |-> src.kind, lines |-> src.lines, day |-> day]

\* task_a3 raises before its write step.
TaskA3Raises(src, day) ==
    /\ h_pc = "idle" /\ h_task = "none"
    /\ \/ src.kind = "missing"
          /\ HandlerRaises("task_a3", A3Call(src, day), HTTPException(404, "source file not found."))
       \/ src.kind # "missing" /\ InvalidDay(day)
          /\ HandlerRaises("task_a3", A3Call(src, day), HTTPException(400, "Invalid day of the week"))
       \/ src.kind = "unreadable" /\ ~InvalidDay(day)
          /\ HandlerRaises("task_a3", A3Call(src, day), A3ProcessingError)
       \/ src.kind = "present" /\ ~InvalidDay(day)
          /\ CountDays(src.lines, DayIndex(day), 0) = -1
          /\ HandlerRaises("task_a3", A3Call(src, day), A3ProcessingError)
    /\ UNCHANGED <<AIPROXY_TOKEN, upstream_silent, a9_vars, q_vars>>

\* task_a3 counts the days and writes the count.
TaskA3Writes(src, day) ==
    /\ h_pc = "idle" /\ h_task = "none"
    /\ src.kind = "present" /\ ~InvalidDay(day)
    /\ CountDays(src.lines, DayIndex(day), 0) >= 0
    /\ HandlerWrites("task_a3", A3Call(src, day), <<Str(CountDays(src.lines, DayIndex(day), 0))>>)
    /\ UNCHANGED <<AIPROXY_TOKEN, upstream_silent, a9_vars, q_vars>>

\* task_a3 counts the days and the write raises.
TaskA3WriteFails(src, day) ==
    /\ h_pc = "idle" /\ h_task = "none"
    /\ src.kind = "present" /\ ~InvalidDay(day)
    /\ CountDays(src.lines, DayIndex(day), 0) >= 0
    /\ HandlerWriteRaises("task_a3", A3Call(src, day), <<Str(CountDays(src.lines, DayIndex(day), 0))>>,
                          HTTPException(500, "Error writing day count to file."))
    /\ UNCHANGED <<AIPROXY_TOKEN, upstream_silent, a9_vars, q_vars>>

\* ------------------------------------------------------------------ task_a4
\* A contact: last_name and first_name as 1 ("A") or 2 ("B"); 0: the key is
\* missing.
Contacts == [last_name : 1..2, first_name : 0..2]

NameStr == <<"A", "B">>

\* One contact as json.dump writes it.
ContactStr(c) == NameStr[c.last_name] \o "," \o NameStr[c.first_name]

\* The contacts file: "missing", "unreadable", "invalid_json", "object" (the
\* top level is not a list) or "list", and the list.
ContactFiles ==
    [kind : {"missing", "unreadable", "invalid_json", "object"}, contacts : {<<>>}]
    \cup [kind : {"list"}, contacts : SeqsUpTo(Contacts, 2)]

\* x[field] raises KeyError for some contact
MissingField(contacts) == \E k \in DOMAIN contacts : contacts[k].first_name = 0

\* sorted(contacts, key=lambda x: tuple(x[field] for field in sort_fields))
\* with sort_fields = ["last_name", "first_name"]
SortedContacts(contacts) ==
    LET keyed == [k \in DOMAIN contacts |->
                     <<contacts[k].last_name * 3 + contacts[k].first_name, contacts[k]>>]
        sorted == SortByKey(keyed)
    IN  [k \in DOMAIN sorted |-> ContactStr(sorted[k][2])]

\* What `except Exception` re-raises when the block sorting the contacts
\* raised, the HTTPException(status_code=400) of line 253 included.
A4ProcessingError == HTTPException(500, "Error processing contacts file.")

\* task_a4 raises before its write step.
TaskA4Raises(src) ==
    /\ h_pc = "idle" /\ h_task = "none"
    /\ \/ src.kind = "missing"
          /\ HandlerRaises("task_a4", src, HTTPException(404, "source file not found."))
       \/ src.kind \in {"unreadable", "invalid_json", "object"}
          /\ HandlerRaises("task_a4", src, A4ProcessingError)
       \/ src.kind = "list" /\ MissingField(src.contacts)
          /\ HandlerRaises("task_a4", src, A4ProcessingError)
    /\ UNCHANGED <<AIPROXY_TOKEN, upstream_silent, a9_vars, q_vars>>

TaskA4Writes(src) ==
    /\ h_pc = "idle" /\ h_task = "none"
    /\ src.kind = "list" /\ ~MissingField(src.contacts)
    /\ HandlerWrites("task_a4", src, SortedContacts(src.contacts))
    /\ UNCHANGED <<AIPROXY_TOKEN, upstream_silent, a9_vars, q_vars>>

TaskA4WriteFails(src) ==
    /\ h_pc = "idle" /\ h_task = "none"
    /\ src.kind = "list" /\ ~MissingField(src.contacts)
    /\ HandlerWriteRaises("task_a4", src, SortedContacts(src.contacts),
                          HTTPException(500, "Error writing sorted contacts to file."))
    /\ UNCHANGED <<AIPROXY_TOKEN, upstream_silent, a9_vars, q_vars>>

\* ------------------------------------------------------------------ task_a5
\* A directory entry: whether its name ends with file_extension, its
\* modification time, its first line and whether it can be read.
LogFiles ==
    {[matches |-> TRUE, mtime |-> 1, first_line |-> " x ", readable |-> TRUE],
     [matches |-> TRUE, mtime |-> 2, first_line |-> "y", readable |-> TRUE],
     [matches |-> TRUE, mtime |-> 2, first_line |-> "y", readable |-> FALSE],
     [matches |-> FALSE, mtime |-> 1, first_line |-> "z", readable |-> TRUE]}

\* The source directory: "missing", "unlistable" (os.listdir raises) or
\* "listed", and its entries in os.listdir order.
LogDirs ==
    [kind : {"missing", "unlistable"}, files : {<<>>}]
    \cup [kind : {"listed"}, files : SeqsUpTo(LogFiles, 2)]

\* log_files[:10]
RecentLimit == 10

\* [f for f in os.listdir(source_dir) if f.endswith(file_extension)]
RECURSIVE MatchingFiles(_)
MatchingFiles(files) ==
    IF files = <<>> THEN <<>>
    ELSE IF Head(files).matches THEN <<Head(files)>> \o MatchingFiles(Tail(files))
    ELSE MatchingFiles(Tail(files))

\* f.readline().strip(), or the placeholder when reading raises
FirstLine(file) ==
    IF ~file.readable THEN "Error reading file"
    ELSE IF file.first_line = " x " THEN "x" ELSE file.first_line

\* log_files.sort(key=getmtime, reverse=True); the first lines of [:10]
RecentLines(files) ==
    LET log_files == MatchingFiles(files)
        keyed == [k \in DOMAIN log_files |-> <<0 - log_files[k].mtime, log_files[k]>>]
        sorted == SortByKey(keyed)
        selected == SubSeq(sorted, 1, IF Len(sorted) < RecentLimit THEN Len(sorted)
                                      ELSE RecentLimit)
    IN  [k \in DOMAIN selected |-> FirstLine(selected[k][2])]

\* task_a5 raises before its write step; `except HTTPException: raise e`
\* passes the 404 of line 299 on.
TaskA5Raises(src) ==
    /\ h_pc = "idle" /\ h_task = "none"
    /\ \/ src.kind = "missing"
          /\ HandlerRaises("task_a5", src, HTTPException(404, "Directory not found."))
       \/ src.kind = "unlistable"
          /\ HandlerRaises("task_a5", src, HTTPException(500, "Error processing log files."))
       \/ src.kind = "listed" /\ MatchingFiles(src.files) = <<>>
          /\ HandlerRaises("task_a5", src, HTTPException(404, "No files with extension found"))
    /\ UNCHANGED <<AIPROXY_TOKEN, upstream_silent, a9_vars, q_vars>>

TaskA5Writes(src) ==
    /\ h_pc = "idle" /\ h_task = "none"
    /\ src.kind = "listed" /\ MatchingFiles(src.files) # <<>>
    /\ HandlerWrites("task_a5", src, RecentLines(src.files))
    /\ UNCHANGED <<AIPROXY_TOKEN, upstream_silent, a9_vars, q_vars>>

TaskA5WriteFails(src) ==
    /\ h_pc = "idle" /\ h_task = "none"
    /\ src.kind = "listed" /\ MatchingFiles(src.files) # <<>>
    /\ HandlerWriteRaises("task_a5", src, RecentLines(src.files),
                          HTTPException(500, "Error writing recent logs to file."))
    /\ UNCHANGED <<AIPROXY_TOKEN, upstream_silent, a9_vars, q_vars>>

NextFileTasks ==
    \/ \E src \in DateFiles, day \in DayArguments :
          \/ TaskA3Raises(src, day)
          \/ TaskA3Writes(src, day)
          \/ TaskA3WriteFails(src, day)
    \/ \E src \in ContactFiles :
          \/ TaskA4Raises(src)
          \/ TaskA4Writes(src)
          \/ TaskA4WriteFails(src)
    \/ \E src \in LogDirs :
          \/ TaskA5Raises(src)
          \/ TaskA5Writes(src)
          \/ TaskA5WriteFails(src)

NextHandlers == NextLlmTasks \/ NextFileTasks

\* ----------------------------------------------------------- specifications
\* The similarity task alone: no dispatch call is made.
InitSimilarity ==
    /\ AIPROXY_TOKEN \in BOOLEAN
    /\ upstream_silent = FALSE
    /\ A9Init
    /\ QInit
    /\ HInit
    /\ h_target = AbsentFile

SpecSimilarity == InitSimilarity /\ [][NextSimilarity]_vars

\* The dispatcher alone: task_a9 is not called, its files are absent.
InitDispatch ==
    /\ AIPROXY_TOKEN \in BOOLEAN
    /\ upstream_silent = FALSE
    /\ A9Init
    /\ ~input_exists
    /\ output_file = AbsentFile
    /\ QInit
    /\ HInit
    /\ h_target = AbsentFile

SpecDispatch == InitDispatch /\ [][NextDispatch]_vars

\* The other handlers alone, one call of one of them.
InitHandlers ==
    /\ AIPROXY_TOKEN \in BOOLEAN
    /\ upstream_silent = FALSE
    /\ A9Init
    /\ ~input_exists
    /\ output_file = AbsentFile
    /\ QInit
    /\ HInit

SpecHandlers == InitHandlers /\ [][NextHandlers]_vars

\* task_a9 with cancellation and calls after a cancelled call.  What the
\* comments say does not bear on cancellation, so every line is the same.
InitCancellation ==
    /\ AIPROXY_TOKEN \in BOOLEAN
    /\ upstream_silent = FALSE
    /\ A9Init
    /\ \A i \in 1..Len(input_lines) : input_lines[i] = "a"
    /\ QInit
    /\ HInit
    /\ h_target = AbsentFile

NextCancellation == NextSimilarity \/ A9Cancel \/ A9CallAgain

SpecCancellation == InitCancellation /\ [][NextCancellation]_vars

\* The network calls of task_a9 and of one query_gpt call, against upstream
\* services that answer or stay silent.  What the comments say does not bear
\* on the requests, so every line is the same comment.  NetworkMaxLines is the
\* most lines the comments file holds here.
NetworkMaxLines == 2

InitNetwork ==
    /\ AIPROXY_TOKEN \in BOOLEAN
    /\ upstream_silent \in BOOLEAN
    /\ A9Init
    /\ Len(input_lines) <= NetworkMaxLines
    /\ \A i \in 1..Len(input_lines) : input_lines[i] = "a"
    /\ output_file = AbsentFile
    /\ QInit
    /\ HInit
    /\ h_target = AbsentFile

NextNetwork == NextSimilarity \/ QueryGptStep(1)

SpecNetwork == InitNetwork /\ [][NextNetwork]_vars

\* The event loop resumes task_a9 once its awaited POST has ended, with an
\* answer or with httpx's timeout.
A9Resumed ==
    \E resp \in EmbOutcomes :
        \/ A9EmbeddingFails(resp)
        \/ A9EmbeddingNext(resp)
        \/ A9NoPair(resp)
        \/ A9Written(resp)
        \/ A9WriteFails(resp)

\* The event loop resumes call c of query_gpt once its awaited POST has ended.
QueryGptResumed(c) ==
    \E resp \in ChatOutcomes :
        \/ QueryGptFails(c, resp)
        \/ QueryGptReturns(c, resp)

\* A coroutine whose awaited POST has ended is resumed: asyncio runs every
\* ready callback in each iteration of the loop.
FairSpecNetwork ==
    SpecNetwork /\ WF_vars(A9Resumed) /\ WF_vars(QueryGptResumed(1))

\* All together.  task_a9, query_gpt and the other handlers share no state but
\* the token and the upstream's silence, which none writes, so each is checked
\* under its own specification above.
Init ==
    /\ AIPROXY_TOKEN \in BOOLEAN
    /\ upstream_silent \in BOOLEAN
    /\ A9Init
    /\ QInit
    /\ HInit

Next == NextCancellation \/ NextDispatch \/ NextHandlers

Spec == Init /\ [][Next]_vars

\* ============================================================ properties
\* ------------------------------------------------------- similarity task
\* The score of the pair (i, j) of fetched embeddings, 0-based.
PairScore(i, j) == cosine_similarity(embeddings[i + 1], embeddings[j + 1])

\* All N >= 2 embeddings were fetched (the scan has run).
AllFetched == Len(comments) >= 2 /\ Len(embeddings) = Len(comments)

PairSelected == pair_indices[1] # NoIndex /\ pair_indices[2] # NoIndex

\* The unordered pairs, as (i, j) with i < j.
IndexPairs == {p \in (0..(Len(embeddings) - 1)) \X (0..(Len(embeddings) - 1)) : p[1] < p[2]}

\* (i, j) is met before (a, b) in the scan: i ascending, then j ascending.
ScannedBefore(p, q) == p[1] < q[1] \/ (p[1] = q[1] /\ p[2] < q[2])

\* C1: when all N >= 2 embeddings are fetched and a pair is selected, the
\* selected pair has index_a < index_b, max_sim is its score, no pair scores
\* higher, and every pair met earlier in the scan scores strictly lower.
C1_SelectedPairIsFirstMaximum ==
    (AllFetched /\ PairSelected) =>
        /\ pair_indices \in IndexPairs
        /\ max_sim = PairScore(pair_indices[1], pair_indices[2])
        /\ \A p \in IndexPairs : ~ScoreGt(PairScore(p[1], p[2]), max_sim)
        /\ \A p \in IndexPairs :
              ScannedBefore(p, pair_indices) => ScoreGt(max_sim, PairScore(p[1], p[2]))

\* A finished run over three comments where a later pair ties with the
\* selected one.
C1_Witness ==
    /\ a9_pc = "done"
    /\ Len(embeddings) = 3
    /\ \E p \in IndexPairs :
          /\ ScannedBefore(pair_indices, p)
          /\ PairScore(p[1], p[2]) = max_sim

\* C2: when all N >= 2 embeddings are fetched, a pair is selected and the
\* task does not end with the 'no pair found' failure.
C2_AlwaysSelectsPair ==
    AllFetched =>
        /\ PairSelected
        /\ a9_err.msg # "Failed to find a similar pair of comments."

\* The lines of the input file that are not blank, judged on the raw line.
NonBlankLines == {k \in DOMAIN input_lines : input_lines[k] \notin {"", " "}}

\* task_a9 was called and read the item list.
ItemsRead ==
    /\ a9_pc # "idle"
    /\ input_exists
    /\ a9_err.msg # "Failed to read comments file."

\* C3: with fewer than 2 non-blank items the task fails with the 'not enough
\* comments' error, having sent no embedding request and with the output
\* file as it was.
C3_TooFewItemsFailEarly ==
    (ItemsRead /\ Cardinality(NonBlankLines) < 2) =>
        /\ a9_pc = "failed"
        /\ a9_err = Exc("RuntimeError", "Not enough comments to compute similarity.")
        /\ emb_requests = <<>>
        /\ emb_answers = <<>>
        /\ output_file = output_before

\* One non-blank item among blank lines, the token set, an output file present.
C3_Witness ==
    /\ ItemsRead
    /\ Cardinality(NonBlankLines) = 1
    /\ Len(input_lines) = 3
    /\ AIPROXY_TOKEN
    /\ output_before.exists
    /\ a9_pc = "failed"

\* The answers that are an embedding-fetch failure.
FailedAnswers == {k \in DOMAIN emb_answers : emb_answers[k].kind # "ok"}

\* C4: once the fetch of an item k has failed, the task has ended with the
\* embedding error, the failed request is the last one sent, no pair is
\* selected and the output file is as it was before the call; the same holds
\* when the first fetch fails for want of the token, with no request sent.
C4_FetchFailureAborts ==
    /\ (FailedAnswers # {}) =>
        /\ a9_pc = "failed"
        /\ a9_err.type = "RuntimeError"
        /\ a9_err.msg = "Error generating embeddings"
        /\ FailedAnswers = {Len(emb_answers)}
        /\ Len(emb_requests) = Len(emb_answers)
        /\ Len(embeddings) = Len(emb_answers) - 1
        /\ ~PairSelected
        /\ max_sim = InitialMaxSim
        /\ output_file = output_before
    /\ (ItemsRead /\ Cardinality(NonBlankLines) >= 2 /\ ~AIPROXY_TOKEN) =>
        /\ a9_pc = "failed"
        /\ a9_err.type = "RuntimeError"
        /\ a9_err.msg = "Error generating embeddings"
        /\ emb_requests = <<>>
        /\ ~PairSelected
        /\ output_file = output_before

\* The fetch of the second of three items failed, an output file was present.
C4_Witness ==
    /\ FailedAnswers = {2}
    /\ Len(comments) = 3
    /\ output_before.exists
    /\ a9_pc = "failed"

\* ------------------------------------------------------------- dispatcher
\* The dispatch call has ended.
Finished(c) == q_pc[c] \in {"returned", "failed"}

\* The answer is a 2xx response whose body has a first choice with a message.
WellFormed(resp) ==
    /\ resp.kind = "http"
    /\ resp.status = 200
    /\ resp.body \notin MalformedBodies

\* The message of a well-formed answer.
UpstreamMessage(resp) == resp.body.choices[1].message

\* The answer is a 2xx response with a malformed body.
Malformed(resp) ==
    /\ resp.kind = "http"
    /\ resp.status = 200
    /\ resp.body \in MalformedBodies

\* The answer is a network-level failure.
NetworkFailure(resp) ==
    \/ resp.kind \in {"timeout", "connect_error"}
    \/ resp.kind = "http" /\ resp.status = 500

Registered(name) == \E t \in DOMAIN tools : tools[t].name = name

\* The tool call's arguments break the schema of the registered tool it names.
BreaksSchema(call) ==
    \E t \in DOMAIN tools : tools[t].name = call.name /\ ~ArgumentsFit(tools[t], call)

\* The answer to call c carries a tool invocation naming a registered task.
NamesRegisteredTask(c) ==
    /\ Finished(c)
    /\ WellFormed(q_resp[c])
    /\ UpstreamMessage(q_resp[c]).tool_calls # <<>>
    /\ \A k \in DOMAIN UpstreamMessage(q_resp[c]).tool_calls :
          Registered(UpstreamMessage(q_resp[c]).tool_calls[k].name)

\* C5 as stated: a tool invocation naming a registered task has its handler
\* invoked exactly once, with the extracted arguments, before the call returns.
C5_HandlerInvokedOnce ==
    \A c \in Calls :
        NamesRegisteredTask(c) =>
            /\ Len(q_invoked[c]) = 1
            /\ q_invoked[c][1] = UpstreamMessage(q_resp[c]).tool_calls[1]

\* C5 amended: a tool invocation naming a registered task is handed back to
\* the caller in the returned message, and the dispatch invokes no handler
\* and raises nothing.
C5_ToolCallReturnedNotInvoked ==
    \A c \in Calls :
        NamesRegisteredTask(c) =>
            /\ q_pc[c] = "returned"
            /\ q_result[c].tool_calls = UpstreamMessage(q_resp[c]).tool_calls
            /\ q_invoked[c] = <<>>
            /\ q_err[c] = NoError

\* A call returned a message whose tool call names task_a3.
C5_Witness ==
    \E c \in Calls :
        /\ NamesRegisteredTask(c)
        /\ q_pc[c] = "returned"
        /\ q_result[c].tool_calls[1].name = "task_a3"

\* The answer to call c carries a tool invocation whose arguments break the
\* named task's schema.
CarriesInvalidArguments(c) ==
    /\ Finished(c)
    /\ WellFormed(q_resp[c])
    /\ \E k \in DOMAIN UpstreamMessage(q_resp[c]).tool_calls :
          BreaksSchema(UpstreamMessage(q_resp[c]).tool_calls[k])

\* C6 as stated: an invocation with a parameter absent from the schema, or
\* missing a required one, ends in an error and yields no result.
C6_InvalidArgumentsRejected ==
    \A c \in Calls :
        CarriesInvalidArguments(c) =>
            /\ q_pc[c] = "failed"
            /\ q_err[c] # NoError

\* C6 amended: the extracted arguments are not checked against the schema; an
\* invocation that breaks it is returned with its name and arguments as
\* received, and no error is raised.
C6_InvalidArgumentsReturned ==
    \A c \in Calls :
        CarriesInvalidArguments(c) =>
            /\ q_pc[c] = "returned"
            /\ q_err[c] = NoError
            /\ \A k \in DOMAIN UpstreamMessage(q_resp[c]).tool_calls :
                  /\ k \in DOMAIN q_result[c].tool_calls
                  /\ q_result[c].tool_calls[k].name =
                        UpstreamMessage(q_resp[c]).tool_calls[k].name
                  /\ q_result[c].tool_calls[k].arguments =
                        UpstreamMessage(q_resp[c]).tool_calls[k].arguments

\* One call returned task_a3 with a parameter (its schema has none), another
\* task_a1 without its required parameter.
C6_Witness ==
    \E c, d \in Calls :
        /\ q_pc[c] = "returned"
        /\ q_result[c].tool_calls # <<>>
        /\ q_result[c].tool_calls[1] = [name |-> "task_a3", arguments |-> {"user_email"}]
        /\ q_pc[d] = "returned"
        /\ q_result[d].tool_calls # <<>>
        /\ q_result[d].tool_calls[1] = [name |-> "task_a1", arguments |-> {}]

HasToolCall(m) == m.tool_calls # <<>>

HasText(m) == m.content # "None"

\* C7 as stated: a returned result holds a tool call or a text, never both
\* and never neither.
C7_ExactlyOneVariant ==
    \A c \in Calls :
        q_pc[c] = "returned" => (HasToolCall(q_result[c]) # HasText(q_result[c]))

\* C7 amended: a returned result holds a tool call exactly when the upstream
\* message does and a text exactly when the upstream message does (so both
\* for a message with both, neither for a message with neither).
C7_VariantsAsUpstream ==
    \A c \in Calls :
        (Finished(c) /\ WellFormed(q_resp[c])) =>
            /\ q_pc[c] = "returned"
            /\ HasToolCall(q_result[c]) = HasToolCall(UpstreamMessage(q_resp[c]))
            /\ HasText(q_result[c]) = HasText(UpstreamMessage(q_resp[c]))
            /\ q_result[c].content = UpstreamMessage(q_resp[c]).content

\* One call returned a result with both variants, another with neither.
C7_Witness ==
    \E c, d \in Calls :
        /\ q_pc[c] = "returned" /\ HasToolCall(q_result[c]) /\ HasText(q_result[c])
        /\ q_pc[d] = "returned" /\ ~HasToolCall(q_result[d]) /\ ~HasText(q_result[d])

\* C8: when the answer carries no tool invocation, the call returns the
\* model's text, the result names no task, the dispatch invoked no handler,
\* and the task's files and state are untouched.
C8_NoToolCallReturnsText ==
    \A c \in Calls :
        (Finished(c) /\ WellFormed(q_resp[c]) /\ ~HasToolCall(UpstreamMessage(q_resp[c]))) =>
            /\ q_pc[c] = "returned"
            /\ q_result[c].content = UpstreamMessage(q_resp[c]).content
            /\ q_result[c].tool_calls = <<>>
            /\ q_invoked[c] = <<>>
            /\ output_file = output_before
            /\ a9_pc = "idle"

\* A call returned a text for an answer without a tool call.
C8_Witness ==
    \E c \in Calls :
        /\ q_pc[c] = "returned"
        /\ WellFormed(q_resp[c])
        /\ ~HasToolCall(UpstreamMessage(q_resp[c]))
        /\ q_result[c].content = "text"

\* C9: a malformed answer (not JSON, no 'choices', 'choices' empty or not a
\* list, first choice without 'message') ends the call in an error; nothing
\* is returned.
C9_MalformedAnswerFails ==
    \A c \in Calls :
        (Finished(c) /\ Malformed(q_resp[c])) =>
            /\ q_pc[c] = "failed"
            /\ q_err[c].type = "RuntimeError"
            /\ q_result[c] = NoMessage
            /\ q_invoked[c] = <<>>

\* Calls have failed on a body without 'choices' and on a first choice
\* without 'message'.
C9_Witness ==
    \E c, d \in Calls :
        /\ q_pc[c] = "failed" /\ q_resp[c] = ChatResponse("http", 200, EmptyObjectBody)
        /\ q_pc[d] = "failed" /\ q_resp[d] = ChatResponse("http", 200, ChoiceWithoutMessageBody)

\* Call c failed on a network-level failure and call d on a malformed answer.
NetworkAndMalformed(c, d) ==
    /\ q_pc[c] = "failed" /\ NetworkFailure(q_resp[c])
    /\ q_pc[d] = "failed" /\ Malformed(q_resp[d])

\* C10 as stated: the error kind reported for a network-level failure differs
\* from the one reported for a malformed answer.
C10_ErrorKindsDiffer ==
    \A c, d \in Calls :
        NetworkAndMalformed(c, d) => q_err[c].type # q_err[d].type

\* C10 amended: both are reported as the same kind, RuntimeError; they differ
\* in the message only, which for a network-level failure is one of 'LLM API
\* Error', 'LLM API Timeout', 'LLM API Request Failed' and for a malformed
\* answer one of 'LLM API Response Decode Error', 'An unexpected error
\* occurred'.
C10_SameKindOtherMessage ==
    \A c, d \in Calls :
        NetworkAndMalformed(c, d) =>
            /\ q_err[c].type = "RuntimeError"
            /\ q_err[d].type = "RuntimeError"
            /\ q_err[c].msg \in {"LLM API Error", "LLM API Timeout", "LLM API Request Failed"}
            /\ q_err[d].msg \in {"LLM API Response Decode Error", "An unexpected error occurred"}

\* One call failed on HTTP 500, another on the body {}.
C10_Witness ==
    \E c, d \in Calls :
        /\ NetworkAndMalformed(c, d)
        /\ q_resp[c].status = 500
        /\ q_resp[d].body = EmptyObjectBody

\* ------------------------------------------------------- the other handlers
\* C11: with the credential unset no operation sends a request: query_gpt,
\* get_embedding (task_a9), task_a7 and task_a8 send none and, once called,
\* have failed.
C11_NoRequestWithoutToken ==
    ~AIPROXY_TOKEN =>
        /\ \A c \in Calls : q_requests[c] = <<>> /\ q_pc[c] \in {"idle", "failed"}
        /\ emb_requests = <<>> /\ a9_pc \in {"idle", "failed"}
        /\ h_requests = <<>>
        /\ h_task \in LlmTasks => h_pc = "failed"

HandlerEnded == h_pc \in {"done", "failed"}

\* C14: after a handler that writes a target file has ended, the file holds
\* the complete new content or is what it was before the call.
C14_NoPartialWrites ==
    /\ (HandlerEnded /\ h_task \in {"task_a3", "task_a4", "task_a5"}) =>
          \/ h_target = h_target_before
          \/ h_target = FileOf(h_content)
    /\ (a9_pc \in {"done", "failed"}) =>
          \/ output_file = output_before
          \/ PairSelected /\ output_file = SimilarPairFile(comments, pair_indices)

\* The fault the handler's own code classifies for its input: 400, 404, or 0
\* when it classifies none.
ClassifiedFault ==
    CASE h_task = "task_a3" ->
            IF h_source.kind = "missing" THEN 404
            ELSE IF InvalidDay(h_source.day) THEN 400
            ELSE IF h_source.kind = "present"
                    /\ \E k \in DOMAIN h_source.lines : h_source.lines[k] = "not a date"
                 THEN 400
            ELSE 0
      [] h_task = "task_a4" ->
            IF h_source.kind = "missing" THEN 404
            ELSE IF h_source.kind = "object" THEN 400
            ELSE 0
      [] h_task = "task_a5" ->
            IF h_source.kind = "missing" THEN 404
            ELSE IF h_source.kind = "listed"
                    /\ \A k \in DOMAIN h_source.files : ~h_source.files[k].matches
                 THEN 404
            ELSE 0
      [] OTHER -> 0

\* C18: a client-input fault (400) or a not-found fault (404) that a file
\* task handler classifies itself reaches the caller with that status, never
\* as a service fault (500).
C18_ClassificationKept ==
    (HandlerEnded /\ ClassifiedFault # 0) =>
        /\ h_pc = "failed"
        /\ h_err.type = "HTTPException"
        /\ h_err.status = ClassifiedFault

\* C19: every pair of fetched vectors in which at least one has zero magnitude
\* scores exactly 0, and no score is a quotient by zero: the division is
\* performed only when both magnitudes are nonzero.
C19_ZeroVectorScoresZero ==
    \A i, j \in 1..Len(embeddings) :
        /\ cosine_similarity(embeddings[i], embeddings[j])[2] > 0
        /\ (Norm(embeddings[i]) = 0 \/ Norm(embeddings[j]) = 0) =>
               cosine_similarity(embeddings[i], embeddings[j]) = <<0, 1>>

\* A finished call whose selected pair holds a zero vector, selected with
\* the score 0.
C19_Witness ==
    /\ a9_pc = "done"
    /\ PairSelected
    /\ \/ Norm(embeddings[pair_indices[1] + 1]) = 0
       \/ Norm(embeddings[pair_indices[2] + 1]) = 0
    /\ max_sim = <<0, 1>>

\* --------------------------------------------------------- network calls
\* C12: a dispatch call sends at most one request, an embedding fetch sends
\* at most one request (one per answer received, and one more while a fetch
\* is awaited), whatever the outcome: nothing is sent again after a failure.
C12_SingleAttempt ==
    /\ \A c \in Calls : Len(q_requests[c]) <= 1
    /\ Len(emb_requests) = Len(emb_answers) + (IF a9_pc = "awaiting" THEN 1 ELSE 0)
    /\ Len(emb_requests) <= Len(comments)

\* A dispatch call failed on a timeout after its one request, and the
\* similarity task failed on its second fetch after two requests.
C12_Witness ==
    /\ q_pc[1] = "failed" /\ q_resp[1].kind = "timeout" /\ Len(q_requests[1]) = 1
    /\ a9_pc = "failed" /\ Len(emb_answers) = 2 /\ Len(emb_requests) = 2
    /\ emb_answers[2].kind = "status_error"

\* C16: both clients are built with a timeout, so a call that awaits a POST
\* ends, returning or raising, also when the upstream stays silent; against
\* a silent upstream it ends on the timeout of its first request.
C16_CallsTerminate ==
    /\ <>[](a9_pc # "awaiting" /\ \A c \in Calls : q_pc[c] # "awaiting")
    /\ [](upstream_silent =>
            /\ (a9_pc = "failed" /\ emb_requests # <<>>) =>
                   /\ a9_err.cause = "API Timeout" /\ Len(emb_requests) = 1
            /\ \A c \in Calls : q_pc[c] # "returned"
            /\ \A c \in Calls : (q_pc[c] = "failed" /\ q_requests[c] # <<>>) =>
                   q_err[c].msg = "LLM API Timeout")

\* Against a silent upstream both calls have ended, each on its timeout.
C16_Witness ==
    /\ upstream_silent
    /\ a9_pc = "failed" /\ Len(emb_requests) = 1 /\ a9_err.cause = "API Timeout"
    /\ q_pc[1] = "failed" /\ q_resp[1].kind = "timeout"

\* C13: request i carries item i and no item is requested twice; every vector
\* held is the one answered to the request for its own item; once all N
\* fetches have succeeded N requests were made and index i holds the vector
\* returned for item i.
C13_OneRequestPerItemInOrder ==
    /\ Len(emb_requests) <= Len(comments)
    /\ \A i \in 1..Len(emb_requests) : emb_requests[i] = comments[i]
    /\ Len(embeddings) <= Len(emb_answers)
    /\ \A i \in 1..Len(embeddings) :
           emb_answers[i].kind = "ok" /\ embeddings[i] = emb_answers[i].vec
    /\ AllFetched =>
           Len(emb_requests) = Len(comments) /\ Len(emb_answers) = Len(comments)

\* Three items were fetched, the answers differ, each sits at its item's index.
C13_Witness ==
    /\ AllFetched
    /\ Len(comments) = 3
    /\ comments[1] # comments[2]
    /\ embeddings = <<emb_answers[1].vec, emb_answers[2].vec, emb_answers[3].vec>>
    /\ embeddings[1] # embeddings[2] /\ embeddings[2] # embeddings[3]
    /\ embeddings[1] # embeddings[3]

\* ------------------------------------------------------------ statelessness
\* C17: the registry keeps its initial value; every request carries the
\* registry and the call's own instruction and nothing else; and two finished
\* calls with the same instruction and the same upstream answer ended the
\* same way, whatever the other calls did.
C17_RegistryReadOnlyCallsIndependent ==
    /\ tools = ToolsInit
    /\ \A c \in Calls : \A i \in 1..Len(q_requests[c]) :
           /\ q_requests[c][i].tools = ToolsInit
           /\ q_requests[c][i].messages = <<[role |-> "user", content |-> q_input[c]]>>
    /\ \A c, d \in Calls :
           (Finished(c) /\ Finished(d) /\ q_input[c] = q_input[d] /\ q_resp[c] = q_resp[d]) =>
               /\ q_pc[c] = q_pc[d]
               /\ q_result[c] = q_result[d]
               /\ q_err[c] = q_err[d]
               /\ q_requests[c] = q_requests[d]

\* Two calls with different instructions have both sent their request and
\* ended, one returning a message and one raising.
C17_Witness ==
    \E c, d \in Calls :
        /\ q_input[c] # q_input[d]
        /\ q_pc[c] = "returned" /\ HasToolCall(q_result[c])
        /\ q_pc[d] = "failed" /\ Len(q_requests[d]) = 1
        /\ tools = ToolsInit

\* ------------------------------------------------------------ cancellation
\* The call running now follows a cancelled call.
AfterCancelledCall == cancelled_fetched # <<>>

\* C15: a call cancelled at an embedding await, holding k < N vectors, ends
\* with CancelledError and leaves the output file as it was; the call after
\* it starts without vectors, holds only vectors answered to its own
\* requests, and has made N requests of its own when it holds N vectors.
C15_CancelledCallLeavesNothing ==
    /\ a9_pc = "cancelled" =>
           /\ Len(embeddings) < Len(comments)
           /\ output_file = output_before
           /\ a9_err.type = "CancelledError"
    /\ AfterCancelledCall =>
           /\ a9_pc = "idle" => embeddings = <<>> /\ emb_requests = <<>>
           /\ Len(embeddings) <= Len(emb_answers)
           /\ \A i \in 1..Len(embeddings) : embeddings[i] = emb_answers[i].vec
           /\ Len(embeddings) = Len(comments) => Len(emb_requests) = Len(comments)
           /\ a9_pc = "done" => Len(emb_requests) = Len(comments)

\* A call was cancelled holding two of three vectors, and the call after it
\* has fetched all three and written the output file.
C15_Witness ==
    /\ cancelled_fetched = <<2>>
    /\ a9_pc = "done"
    /\ Len(comments) = 3 /\ Len(emb_requests) = 3 /\ Len(embeddings) = 3
    /\ output_file # output_before

====
